---- MODULE Spec2Model ----
(***************************************************************************)
(* Model of app/recipe/views.py: RecipeViewSet (a ModelViewSet over        *)
(* Recipe) and BaseRecipeAttrViewSet (list/update/destroy over Tag and     *)
(* Ingredient).  The database tables are the state; every HTTP operation   *)
(* of the two viewsets is one action; the request being answered and its   *)
(* response are kept in `response`.  Every request is authenticated (the   *)
(* permission class IsAuthenticated turns the others away before a handler *)
(* runs); `user` is self.request.user.                                     *)
(*                                                                         *)
(* Strings are sequences of one-character strings.  A QuerySet is a bag of *)
(* row ids: a filter() across a many-to-many relation is an SQL JOIN and   *)
(* yields one row per matching association, so a row may occur several     *)
(* times until distinct() is applied.                                      *)
(***************************************************************************)
EXTENDS Integers, Sequences, FiniteSets, Bags, TLC

VARIABLES
    recipes,      \* Recipe table: id -> [user, tags, ingredients, image]
    attrs,        \* Tag and Ingredient tables: kind -> id -> [user, name]
    nextId,       \* next auto-increment primary key of the Recipe table
    response      \* [req, status, data] of the request being answered

vars == <<recipes, attrs, nextId, response>>

(***************************************************************************)
(* Bounds and finite domains of the model.                                 *)
(***************************************************************************)
\* The Recipe table hands out the primary keys 1..MaxRecipeId.
MaxRecipeId == 2

Users == {"u1", "u2"}
Kinds == {"tag", "ingredient"}
AttrIds == {1, 2}
Names == {<<"a">>, <<"a", "b">>}

Range(s) == {s[i] : i \in DOMAIN s}

(***************************************************************************)
(* Python: str.split(","), int(str), truthiness of a str or None.          *)
(***************************************************************************)
Digits == {"0", "1", "2", "3", "4", "5", "6", "7", "8", "9"}

DigitVal(c) ==
    CASE c = "0" -> 0 [] c = "1" -> 1 [] c = "2" -> 2 [] c = "3" -> 3
      [] c = "4" -> 4 [] c = "5" -> 5 [] c = "6" -> 6 [] c = "7" -> 7
      [] c = "8" -> 8 [] c = "9" -> 9

\* qs.split(","): the tokens between the commas; "" splits to [""].
RECURSIVE split(_)
split(qs) ==
    IF \A i \in DOMAIN qs : qs[i] # ","
    THEN <<qs>>
    ELSE LET k == CHOOSE i \in DOMAIN qs :
                      qs[i] = "," /\ \A j \in 1..(i - 1) : qs[j] # ","
         IN <<SubSeq(qs, 1, k - 1)>> \o split(SubSeq(qs, k + 1, Len(qs)))

\* int(str_id) raises ValueError unless the token is a non-empty digit string
\* (over the alphabet of the model: digits, "," and letters).
int_ok(str_id) == Len(str_id) > 0 /\ \A i \in DOMAIN str_id : str_id[i] \in Digits

RECURSIVE int(_)
int(str_id) ==
    IF Len(str_id) = 0 THEN 0
    ELSE 10 * int(SubSeq(str_id, 1, Len(str_id) - 1)) + DigitVal(str_id[Len(str_id)])

\* RecipeViewSet._params_to_ints: [int(str_id) for str_id in qs.split(",")]
_params_to_ints_raises(qs) == \E i \in DOMAIN split(qs) : ~int_ok(split(qs)[i])

_params_to_ints(qs) == [i \in DOMAIN split(qs) |-> int(split(qs)[i])]

\* request.query_params.get(key): the value, None when the key is absent;
\* `if tags:` is true for a present, non-empty string.
Truthy(query_params, key) == key \in DOMAIN query_params /\ query_params[key] # <<>>

(***************************************************************************)
(* Requests and responses.                                                 *)
(***************************************************************************)
NoParams == <<>>                \* empty QueryDict / empty request body

Request(view, action, user, pk, query_params, data) ==
    [view |-> view, action |-> action, user |-> user, pk |-> pk,
     query_params |-> query_params, data |-> data]

Response(req, status, data) == [req |-> req, status |-> status, data |-> data]

HTTP_200_OK == 200
HTTP_201_CREATED == 201              \* CreateModelMixin.create
HTTP_204_NO_CONTENT == 204           \* DestroyModelMixin.destroy
HTTP_400_BAD_REQUEST == 400
HTTP_404_NOT_FOUND == 404            \* Http404 out of get_object()
HTTP_500_INTERNAL_SERVER_ERROR == 500  \* an exception no handler catches

(***************************************************************************)
(* QuerySets: bags of row ids over a table.                                *)
(***************************************************************************)
\* Model.objects.all(): every row of the table once.
all(table) == [id \in DOMAIN table |-> 1]

\* The bag with mult[id] copies of each id (rows with no copy are dropped).
Rows(ids, mult) == [id \in {x \in ids : mult[x] > 0} |-> mult[id]]

\* The many-to-many field of Recipe that links to a Tag / an Ingredient.
M2MField(kind) == IF kind = "tag" THEN "tags" ELSE "ingredients"

\* queryset.filter(<field>__id__in=ids): JOIN with the association table, one
\* row per association of the recipe whose target id is in ids.
filter_id_in(queryset, field, ids) ==
    Rows(DOMAIN queryset,
         [r \in DOMAIN queryset |->
             queryset[r] * Cardinality(recipes[r][field] \cap Range(ids))])

\* A filter(recipe__isnull=False) that keeps unreferenced attributes.
filter_recipe_isnull_ignored(queryset, kind) == queryset

\* queryset.filter(recipe__isnull=False): JOIN of the attribute with the
\* recipes that reference it, one row per referencing recipe.
filter_recipe_isnull_False(queryset, kind) ==
    Rows(DOMAIN queryset,
         [a \in DOMAIN queryset |->
             queryset[a] * Cardinality({r \in DOMAIN recipes :
                                            a \in recipes[r][M2MField(kind)]})])

\* A filter(user=...) that keeps the rows of every user.
filter_user_unscoped(queryset, table, user) == queryset

\* queryset.filter(user=self.request.user)
filter_user(queryset, table, user) ==
    Rows(DOMAIN queryset,
         [id \in DOMAIN queryset |-> IF table[id].user = user THEN queryset[id] ELSE 0])

\* Lexicographic order of display names (strings over "a".."c").
Ord(c) == CASE c = "a" -> 97 [] c = "b" -> 98 [] c = "c" -> 99

RECURSIVE LexLess(_, _)
LexLess(s, t) ==
    IF Len(t) = 0 THEN FALSE
    ELSE IF Len(s) = 0 THEN TRUE
    ELSE IF s[1] # t[1] THEN Ord(s[1]) < Ord(t[1])
    ELSE LexLess(Tail(s), Tail(t))

\* ORDER BY: every sequence of the rows in which no row comes after one that
\* sorts strictly later; rows that compare equal come in any order, as SQL
\* leaves it to the database.  before[<<x, y>>] = x sorts strictly before y.
RECURSIVE order_by(_, _)
order_by(queryset, before) ==
    IF DOMAIN queryset = {} THEN {<<>>}
    ELSE UNION {
           {<<m>> \o s : s \in order_by(queryset (-) SetToBag({m}), before)} :
           m \in {x \in DOMAIN queryset :
                     \A y \in DOMAIN queryset : ~before[<<y, x>>]} }

\* order_by("id"): ascending instead of descending.
order_by_id(queryset) ==
    order_by(queryset,
             [p \in (DOMAIN queryset) \X (DOMAIN queryset) |-> p[1] < p[2]])

\* order_by("-id")
order_by_minus_id(queryset) ==
    order_by(queryset,
             [p \in (DOMAIN queryset) \X (DOMAIN queryset) |-> p[1] > p[2]])

\* order_by("-name")
order_by_minus_name(queryset, table) ==
    order_by(queryset,
             [p \in (DOMAIN queryset) \X (DOMAIN queryset) |->
                 LexLess(table[p[2]].name, table[p[1]].name)])

\* A queryset without .distinct(): the joined rows as they are.
not_distinct(rows) == rows

\* .distinct(): SELECT DISTINCT keeps one of several identical rows.
RECURSIVE distinct(_)
distinct(rows) ==
    IF rows = <<>> THEN <<>>
    ELSE LET front == distinct(SubSeq(rows, 1, Len(rows) - 1))
             last  == rows[Len(rows)]
         IN IF last \in Range(front) THEN front ELSE Append(front, last)

(***************************************************************************)
(* RecipeViewSet.get_queryset                                              *)
(***************************************************************************)
\* ValueError out of _params_to_ints, for tags or for ingredients.
RecipeViewSet_get_queryset_raises(query_params) ==
    \/ Truthy(query_params, "tags") /\ _params_to_ints_raises(query_params["tags"])
    \/ Truthy(query_params, "ingredients")
         /\ _params_to_ints_raises(query_params["ingredients"])

\* A get_queryset whose ingredients filter starts again from self.queryset,
\* dropping the tags filter.
RecipeViewSet_get_queryset_unchained(user, query_params) ==
    LET q0 == all(recipes)
        q1 == IF Truthy(query_params, "tags")
              THEN filter_id_in(q0, "tags", _params_to_ints(query_params["tags"]))
              ELSE q0
        q2 == IF Truthy(query_params, "ingredients")
              THEN filter_id_in(q0, "ingredients",
                                _params_to_ints(query_params["ingredients"]))
              ELSE q1
    IN {distinct(rows) : rows \in order_by_minus_id(filter_user(q2, recipes, user))}

\* The possible results (row sequences) of get_queryset when it does not raise.
RecipeViewSet_get_queryset(user, query_params) ==
    LET q0 == all(recipes)
        q1 == IF Truthy(query_params, "tags")
              THEN filter_id_in(q0, "tags", _params_to_ints(query_params["tags"]))
              ELSE q0
        q2 == IF Truthy(query_params, "ingredients")
              THEN filter_id_in(q1, "ingredients",
                                _params_to_ints(query_params["ingredients"]))
              ELSE q1
    IN {distinct(rows) : rows \in order_by_minus_id(filter_user(q2, recipes, user))}

(***************************************************************************)
(* BaseRecipeAttrViewSet.get_queryset (TagViewSet, IngredientViewSet)      *)
(***************************************************************************)
\* int(self.request.query_params.get("assigned_only", 0)) raises ValueError
\* when the parameter is present and not an integer literal.
BaseRecipeAttrViewSet_get_queryset_raises(query_params) ==
    "assigned_only" \in DOMAIN query_params /\ ~int_ok(query_params["assigned_only"])

assigned_only(query_params) ==
    IF "assigned_only" \in DOMAIN query_params
    THEN int(query_params["assigned_only"]) # 0
    ELSE FALSE

BaseRecipeAttrViewSet_get_queryset(kind, user, query_params) ==
    LET q0 == all(attrs[kind])
        q1 == IF assigned_only(query_params)
              THEN filter_recipe_isnull_False(q0, kind)
              ELSE q0
    IN {distinct(rows) :
          rows \in order_by_minus_name(filter_user(q1, attrs[kind], user), attrs[kind])}

(***************************************************************************)
(* GenericAPIView.get_object(): get_object_or_404 over get_queryset().     *)
(* The lookup runs on the rows get_queryset() returns for THIS request,    *)
(* query parameters included.                                              *)
(***************************************************************************)
get_object(querysets, pk) ==
    LET rows == CHOOSE r \in querysets : TRUE
        n    == Cardinality({i \in DOMAIN rows : rows[i] = pk})
    IN IF n = 0 THEN "Http404"
       ELSE IF n = 1 THEN "found"
       ELSE "MultipleObjectsReturned"

(***************************************************************************)
(* Serializer.save with keyword arguments: validated_data merged with the   *)
(* kwargs, kwargs                                                          *)
(* winning; fields the merged data does not carry keep the instance's      *)
(* value.                                                                  *)
(***************************************************************************)
save(instance, validated_data, kwargs) ==
    LET merged == kwargs @@ validated_data
    IN [f \in DOMAIN instance |->
           IF f \in DOMAIN merged THEN merged[f] ELSE instance[f]]

\* serializer.is_valid(): the request body passes the serializer's field
\* validation.  A body that does not is modelled by one carrying an "errors"
\* entry.
InvalidData == [errors |-> "invalid"]
is_valid(data) == "errors" \notin DOMAIN data

\* A Recipe before its fields are set; user is NOT NULL in the table.
NULL == "NULL"
NewRecipe == [user |-> NULL, tags |-> {}, ingredients |-> {}, image |-> ""]

\* A perform_create that saves without user=self.request.user.
perform_create_unstamped(validated_data, user) ==
    save(NewRecipe, validated_data, NoParams)

\* RecipeViewSet.perform_create: serializer.save(user=self.request.user)
perform_create(validated_data, user) ==
    save(NewRecipe, validated_data, "user" :> user)

\* RecipeViewSet.perform_update: serializer.save(user=self.request.user)
perform_update(instance, validated_data, user) ==
    save(instance, validated_data, "user" :> user)

(***************************************************************************)
(* RecipeViewSet: list, create, retrieve, update, destroy, upload_image.   *)
(***************************************************************************)
RecipeList(user, query_params) ==
    LET req == Request("recipe", "list", user, 0, query_params, NoParams)
    IN /\ IF RecipeViewSet_get_queryset_raises(query_params)
          THEN response' = Response(req, HTTP_500_INTERNAL_SERVER_ERROR, <<>>)
          ELSE \E rows \in RecipeViewSet_get_queryset(user, query_params) :
                   response' = Response(req, HTTP_200_OK, rows)
       /\ UNCHANGED <<recipes, attrs, nextId>>

RecipeCreate(user, data) ==
    LET req == Request("recipe", "create", user, 0, NoParams, data)
        new == perform_create(data, user)
    IN /\ IF ~is_valid(data)
          THEN /\ response' = Response(req, HTTP_400_BAD_REQUEST, <<>>)
               /\ UNCHANGED <<recipes, nextId>>
          ELSE IF new.user = NULL
          THEN /\ response' = Response(req, HTTP_500_INTERNAL_SERVER_ERROR, <<>>)
               /\ UNCHANGED <<recipes, nextId>>
          ELSE /\ nextId <= MaxRecipeId
               /\ recipes' = (nextId :> new) @@ recipes
               /\ nextId' = nextId + 1
               /\ response' = Response(req, HTTP_201_CREATED, <<nextId>>)
       /\ UNCHANGED attrs

\* The part every detail route shares: get_queryset() may raise, get_object()
\* may find nothing.  "found" lets the handler go on.
RecipeLookup(user, pk, query_params) ==
    IF RecipeViewSet_get_queryset_raises(query_params) THEN "ValueError"
    ELSE get_object(RecipeViewSet_get_queryset(user, query_params), pk)

LookupStatus(outcome) ==
    IF outcome = "Http404" THEN HTTP_404_NOT_FOUND ELSE HTTP_500_INTERNAL_SERVER_ERROR

RecipeRetrieve(user, pk, query_params) ==
    LET req   == Request("recipe", "retrieve", user, pk, query_params, NoParams)
        found == RecipeLookup(user, pk, query_params)
    IN /\ response' = IF found = "found"
                      THEN Response(req, HTTP_200_OK, <<pk>>)
                      ELSE Response(req, LookupStatus(found), <<>>)
       /\ UNCHANGED <<recipes, attrs, nextId>>

RecipeUpdate(user, pk, query_params, data) ==
    LET req   == Request("recipe", "update", user, pk, query_params, data)
        found == RecipeLookup(user, pk, query_params)
    IN /\ IF found # "found"
          THEN /\ response' = Response(req, LookupStatus(found), <<>>)
               /\ UNCHANGED recipes
          ELSE IF ~is_valid(data)
          THEN /\ response' = Response(req, HTTP_400_BAD_REQUEST, <<>>)
               /\ UNCHANGED recipes
          ELSE /\ recipes' = [recipes EXCEPT ![pk] = perform_update(@, data, user)]
               /\ response' = Response(req, HTTP_200_OK, <<pk>>)
       /\ UNCHANGED <<attrs, nextId>>

RecipeDestroy(user, pk, query_params) ==
    LET req   == Request("recipe", "destroy", user, pk, query_params, NoParams)
        found == RecipeLookup(user, pk, query_params)
    IN /\ IF found # "found"
          THEN /\ response' = Response(req, LookupStatus(found), <<>>)
               /\ UNCHANGED recipes
          ELSE /\ recipes' = [r \in DOMAIN recipes \ {pk} |-> recipes[r]]
               /\ response' = Response(req, HTTP_204_NO_CONTENT, <<>>)
       /\ UNCHANGED <<attrs, nextId>>

\* RecipeViewSet.upload_image; data carries the image.
upload_image(user, pk, query_params, data) ==
    LET req    == Request("recipe", "upload_image", user, pk, query_params, data)
        recipe == RecipeLookup(user, pk, query_params)
    IN /\ IF recipe # "found"
          THEN /\ response' = Response(req, LookupStatus(recipe), <<>>)
               /\ UNCHANGED recipes
          ELSE IF is_valid(data)
          THEN /\ recipes' = [recipes EXCEPT ![pk] = save(@, data, NoParams)]
               /\ response' = Response(req, HTTP_200_OK, <<pk>>)
          ELSE /\ response' = Response(req, HTTP_400_BAD_REQUEST, <<>>)
               /\ UNCHANGED recipes
       /\ UNCHANGED <<attrs, nextId>>

(***************************************************************************)
(* BaseRecipeAttrViewSet (TagViewSet, IngredientViewSet): list, update,    *)
(* destroy.                                                                *)
(***************************************************************************)
AttrList(kind, user, query_params) ==
    LET req == Request(kind, "list", user, 0, query_params, NoParams)
    IN /\ IF BaseRecipeAttrViewSet_get_queryset_raises(query_params)
          THEN response' = Response(req, HTTP_500_INTERNAL_SERVER_ERROR, <<>>)
          ELSE \E rows \in BaseRecipeAttrViewSet_get_queryset(kind, user, query_params) :
                   response' = Response(req, HTTP_200_OK, rows)
       /\ UNCHANGED <<recipes, attrs, nextId>>

AttrLookup(kind, user, pk, query_params) ==
    IF BaseRecipeAttrViewSet_get_queryset_raises(query_params) THEN "ValueError"
    ELSE get_object(BaseRecipeAttrViewSet_get_queryset(kind, user, query_params), pk)

\* UpdateModelMixin.update with the default perform_update: serializer.save()
AttrUpdate(kind, user, pk, query_params, data) ==
    LET req   == Request(kind, "update", user, pk, query_params, data)
        found == AttrLookup(kind, user, pk, query_params)
    IN /\ IF found # "found"
          THEN /\ response' = Response(req, LookupStatus(found), <<>>)
               /\ UNCHANGED attrs
          ELSE IF ~is_valid(data)
          THEN /\ response' = Response(req, HTTP_400_BAD_REQUEST, <<>>)
               /\ UNCHANGED attrs
          ELSE /\ attrs' = [attrs EXCEPT ![kind][pk] = save(@, data, NoParams)]
               /\ response' = Response(req, HTTP_200_OK, <<pk>>)
       /\ UNCHANGED <<recipes, nextId>>

\* DestroyModelMixin.destroy: instance.delete() also deletes the rows of the
\* association table that reference the attribute.
AttrDestroy(kind, user, pk, query_params) ==
    LET req   == Request(kind, "destroy", user, pk, query_params, NoParams)
        found == AttrLookup(kind, user, pk, query_params)
    IN IF found # "found"
       THEN /\ response' = Response(req, LookupStatus(found), <<>>)
            /\ UNCHANGED <<recipes, attrs, nextId>>
       ELSE /\ attrs' = [attrs EXCEPT
                            ![kind] = [a \in DOMAIN attrs[kind] \ {pk} |-> attrs[kind][a]]]
            /\ recipes' = [r \in DOMAIN recipes |->
                              [recipes[r] EXCEPT ![M2MField(kind)] = @ \ {pk}]]
            /\ response' = Response(req, HTTP_204_NO_CONTENT, <<>>)
            /\ UNCHANGED nextId

(***************************************************************************)
(* Inputs of the requests.                                                 *)
(***************************************************************************)
\* The subsets of keys, each mapped to a value of values.
Dicts(keys, values) == UNION {[ks -> values] : ks \in SUBSET keys}

\* Values of the tags / ingredients query parameters: "", "1", "2", "1,2",
\* "2,x" and "1," (a trailing comma).
FilterStrings ==
    {<<>>, <<"1">>, <<"2">>, <<"1", ",", "2">>, <<"2", ",", "x">>, <<"1", ",">>}

RecipeQueryParams == Dicts({"tags", "ingredients"}, FilterStrings)

\* Values of the assigned_only query parameter.
AttrQueryParams == Dicts({"assigned_only"}, {<<"0">>, <<"1">>, <<"x">>})

\* Query strings sent along with a detail request.
RecipeDetailParams == {NoParams, [tags |-> <<"1">>], [ingredients |-> <<"x">>]}
AttrDetailParams == {NoParams, [assigned_only |-> <<"1">>]}

\* The attributes a user owns: the serializer links a recipe only to tags
\* and ingredients of the requesting user.
Owned(kind, user) == {a \in DOMAIN attrs[kind] : attrs[kind][a].user = user}

\* Bodies of a recipe create / update request: the tags and ingredients to
\* link, with or without an owner written into the payload.
RecipePayloads(user) ==
    {InvalidData} \cup
    {u @@ [tags |-> t, ingredients |-> i] :
        u \in Dicts({"user"}, Users),
        t \in SUBSET Owned("tag", user),
        i \in SUBSET Owned("ingredient", user)}

ImagePayloads == {InvalidData, [image |-> "img"]}

AttrPayloads == {InvalidData} \cup {[name |-> n] : n \in Names}

(***************************************************************************)
(* The service.  A worker handles one request to completion before it      *)
(* takes the next: a handler runs when no response is pending, and leaves  *)
(* its response in `response` until the response has been sent.            *)
(***************************************************************************)
NoResponse == Response(Request("", "", "", 0, NoParams, NoParams), 0, <<>>)

Idle == response = NoResponse

ResponseSent ==
    /\ ~Idle
    /\ response' = NoResponse
    /\ UNCHANGED <<recipes, attrs, nextId>>

\* After construction: no recipe yet.  The attribute viewsets have no create
\* route, so the tables hold their rows from the start: u2 owns tag 1 and u1
\* owns ingredient 1.
Init ==
    /\ recipes = <<>>
    /\ nextId = 1
    /\ attrs = [kind \in Kinds |->
                  IF kind = "tag"
                  THEN 1 :> [user |-> "u2", name |-> <<"a">>]
                  ELSE 1 :> [user |-> "u1", name |-> <<"a">>]]
    /\ response = NoResponse

Next ==
    \/ /\ Idle
       /\ \E user \in Users, query_params \in RecipeQueryParams :
           RecipeList(user, query_params)
    \/ /\ Idle
       /\ \E user \in Users : \E data \in RecipePayloads(user) :
           RecipeCreate(user, data)
    \/ /\ Idle
       /\ \E user \in Users, pk \in 1..MaxRecipeId, query_params \in RecipeDetailParams :
           RecipeRetrieve(user, pk, query_params)
    \/ /\ Idle
       /\ \E user \in Users, pk \in 1..MaxRecipeId, query_params \in RecipeDetailParams :
         \E data \in RecipePayloads(user) :
           RecipeUpdate(user, pk, query_params, data)
    \/ /\ Idle
       /\ \E user \in Users, pk \in 1..MaxRecipeId, query_params \in RecipeDetailParams :
           RecipeDestroy(user, pk, query_params)
    \/ /\ Idle
       /\ \E user \in Users, pk \in 1..MaxRecipeId, query_params \in RecipeDetailParams,
          data \in ImagePayloads :
           upload_image(user, pk, query_params, data)
    \/ /\ Idle
       /\ \E kind \in Kinds, user \in Users, query_params \in AttrQueryParams :
           AttrList(kind, user, query_params)
    \/ /\ Idle
       /\ \E kind \in Kinds, user \in Users, pk \in AttrIds,
          query_params \in AttrDetailParams, data \in AttrPayloads :
           AttrUpdate(kind, user, pk, query_params, data)
    \/ /\ Idle
       /\ \E kind \in Kinds, user \in Users, pk \in AttrIds,
          query_params \in AttrDetailParams :
           AttrDestroy(kind, user, pk, query_params)
    \/ ResponseSent

Spec == Init /\ [][Next]_vars

(***************************************************************************)
(* The list queries over any stored collection: the tag table holds tags   *)
(* 1 and 2, both of u1 or one of each user, with equal or different names; *)
(* the ingredient table holds the same rows; the recipes 1..n (n up to     *)
(* MaxRecipeId) belong to either user and link any of their owner's tags   *)
(* and ingredients.                                                        *)
(***************************************************************************)
StoredAttrs ==
    {[kind \in Kinds |->
         (1 :> [user |-> "u1", name |-> <<"a">>]) @@ (2 :> [user |-> u, name |-> n])] :
       u \in Users, n \in Names}

StoredRecipes(table) ==
    LET own(kind, user) == {a \in DOMAIN table[kind] : table[kind][a].user = user}
        rows == UNION {[user : {u}, tags : SUBSET own("tag", u),
                        ingredients : SUBSET own("ingredient", u), image : {""}] :
                       u \in Users}
    IN UNION {[1..n -> rows] : n \in 0..MaxRecipeId}

InitList ==
    /\ attrs \in StoredAttrs
    /\ recipes \in StoredRecipes(attrs)
    /\ nextId = Len(recipes) + 1
    /\ response = NoResponse

NextList ==
    \/ /\ Idle
       /\ \E user \in Users, query_params \in RecipeQueryParams :
           RecipeList(user, query_params)
    \/ /\ Idle
       /\ \E kind \in Kinds, user \in Users, query_params \in AttrQueryParams :
           AttrList(kind, user, query_params)
    \/ ResponseSent

SpecList == InitList /\ [][NextList]_vars

(***************************************************************************)
(* Properties.                                                             *)
(***************************************************************************)
req == response.req

IsList(view) == req.view = view /\ req.action = "list"

\* The table a view works on.
Table(view) == IF view = "recipe" THEN recipes ELSE attrs[view]

\* A filter string is in force when the parameter is present and not empty.
Supplied(query_params, key) ==
    key \in DOMAIN query_params /\ Len(query_params[key]) > 0

\* Every comma-separated token of the string is a non-empty string of digits.
WellFormed(str) == \A t \in Range(split(str)) : int_ok(t)

\* The identifiers a well-formed filter string lists.
IdSet(str) == {int(t) : t \in Range(split(str))}

\* Recipe r passes the filter on field (tags / ingredients) of the request.
Passes(r, query_params, field) ==
    Supplied(query_params, field) =>
        recipes[r][field] \cap IdSet(query_params[field]) # {}

\* C1: a list query made by an owner never contains an entity (recipe, tag
\* or ingredient) owned by somebody else, whatever the query parameters and
\* whatever requests were handled before.
C1_OwnerIsolation ==
    \A view \in {"recipe"} \cup Kinds :
        IsList(view) =>
            \A i \in DOMAIN response.data :
                Table(view)[response.data[i]].user = req.user

\* A recipe list filtered by tags was answered while a recipe of another
\* owner matched the tags filter.
C1_Witness ==
    /\ IsList("recipe") /\ response.status = HTTP_200_OK
    /\ Supplied(req.query_params, "tags")
    /\ \E r \in DOMAIN recipes :
           /\ recipes[r].user # req.user
           /\ recipes[r].tags \cap IdSet(req.query_params["tags"]) # {}

\* C2: a well-formed recipe list query of owner O returns exactly O's recipes
\* that pass the tags filter AND the ingredients filter, where a filter that
\* is absent or empty lets every recipe pass and a supplied one lets pass the
\* recipes linked to at least one of the listed identifiers.
C2_FilterSemantics ==
    (/\ IsList("recipe")
     /\ \A k \in DOMAIN req.query_params : WellFormed(req.query_params[k])
                                           \/ req.query_params[k] = <<>>)
    => /\ response.status = HTTP_200_OK
       /\ Range(response.data) =
              {r \in DOMAIN recipes :
                  /\ recipes[r].user = req.user
                  /\ Passes(r, req.query_params, "tags")
                  /\ Passes(r, req.query_params, "ingredients")}

\* Both filters were supplied, a recipe was returned, and a recipe of the
\* owner that matches the tags filter only was left out.
C2_Witness ==
    /\ IsList("recipe") /\ response.status = HTTP_200_OK
    /\ Supplied(req.query_params, "tags")
    /\ Supplied(req.query_params, "ingredients")
    /\ response.data # <<>>
    /\ \E r \in DOMAIN recipes :
           /\ recipes[r].user = req.user
           /\ recipes[r].tags \cap IdSet(req.query_params["tags"]) # {}
           /\ recipes[r].ingredients \cap IdSet(req.query_params["ingredients"]) = {}
           /\ r \notin Range(response.data)

\* C3: a recipe list request whose tags or ingredients parameter holds a
\* token that is not an integer is rejected with a client error (status 4xx)
\* and returns no result.
C3_InvalidFilterRejected ==
    (/\ IsList("recipe")
     /\ \E k \in DOMAIN req.query_params :
            Supplied(req.query_params, k) /\ ~WellFormed(req.query_params[k]))
    => /\ response.status \in 400..499
       /\ response.data = <<>>

\* C4: a recipe that a create or update request of owner Y stores is owned
\* by Y, whatever owner the payload names, and the owner of a stored recipe
\* never changes afterwards.
C4_OwnerStamped ==
    [][/\ (/\ response'.req.view = "recipe"
           /\ response'.req.action \in {"create", "update"}
           /\ response'.status \in {HTTP_200_OK, HTTP_201_CREATED})
          => recipes'[response'.data[1]].user = response'.req.user
       /\ \A r \in DOMAIN recipes' :
              IF r \in DOMAIN recipes
              THEN recipes'[r].user = recipes[r].user
              ELSE recipes'[r].user = response'.req.user]_vars

\* A create or update succeeded whose payload named another owner.
C4_Witness ==
    /\ req.view = "recipe" /\ req.action \in {"create", "update"}
    /\ response.status \in {HTTP_200_OK, HTTP_201_CREATED}
    /\ "user" \in DOMAIN req.data
    /\ req.data["user"] # req.user

\* The recipes, tags and ingredients of an owner, with all their fields.
OwnedBy(user) ==
    [view \in {"recipe"} \cup Kinds |->
        [id \in {x \in DOMAIN Table(view) : Table(view)[x].user = user} |->
            Table(view)[id]]]

\* C5: no request of an owner changes or removes a recipe, tag or
\* ingredient of another owner.
C5_Frame ==
    [][\A user \in Users :
           response'.req.user # user => OwnedBy(user)' = OwnedBy(user)]_vars

\* An update, delete or upload-image request aimed at an entity of another
\* owner was answered NotFound.
C5_Witness ==
    /\ req.action \in {"update", "destroy", "upload_image"}
    /\ response.status = HTTP_404_NOT_FOUND
    /\ req.pk \in DOMAIN Table(req.view)
    /\ Table(req.view)[req.pk].user # req.user

\* C6: a list result holds each entity at most once.
C6_NoDuplicates ==
    (req.action = "list") =>
        \A i, j \in DOMAIN response.data :
            response.data[i] = response.data[j] => i = j

\* A recipe linked to two of the listed tags and two of the listed
\* ingredients was returned.
C6_Witness ==
    /\ IsList("recipe") /\ response.status = HTTP_200_OK
    /\ Supplied(req.query_params, "tags")
    /\ Supplied(req.query_params, "ingredients")
    /\ \E i \in DOMAIN response.data :
           LET r == recipes[response.data[i]]
           IN /\ Cardinality(r.tags \cap IdSet(req.query_params["tags"])) > 1
              /\ Cardinality(r.ingredients
                                 \cap IdSet(req.query_params["ingredients"])) > 1

\* The attributes of a table that some recipe links.
Assigned(kind) ==
    {a \in DOMAIN attrs[kind] :
        \E r \in DOMAIN recipes : a \in recipes[r][M2MField(kind)]}

\* C7: a tag / ingredient list of owner O with assigned_only=1 returns
\* exactly O's attributes linked to at least one recipe; with assigned_only=0
\* or without the parameter it returns exactly all of O's attributes.
C7_AssignedOnly ==
    \A kind \in Kinds :
        (/\ IsList(kind)
         /\ req.query_params \in {NoParams, [assigned_only |-> <<"0">>],
                                  [assigned_only |-> <<"1">>]})
        => /\ response.status = HTTP_200_OK
           /\ Range(response.data) =
                  {a \in DOMAIN attrs[kind] :
                      /\ attrs[kind][a].user = req.user
                      /\ req.query_params = [assigned_only |-> <<"1">>]
                            => a \in Assigned(kind)}

\* An assigned_only=1 list returned an attribute and left out another
\* attribute of the owner that no recipe links.
C7_Witness ==
    \E kind \in Kinds :
        /\ IsList(kind) /\ response.status = HTTP_200_OK
        /\ req.query_params = [assigned_only |-> <<"1">>]
        /\ response.data # <<>>
        /\ \E a \in DOMAIN attrs[kind] :
               /\ attrs[kind][a].user = req.user
               /\ a \notin Assigned(kind)
               /\ a \notin Range(response.data)

\* C8: a recipe list is in strictly descending order of id; a tag /
\* ingredient list is in descending order of name (no name is followed by a
\* lexicographically greater one).
C8_Ordering ==
    /\ IsList("recipe") =>
           \A i \in 1..(Len(response.data) - 1) :
               response.data[i] > response.data[i + 1]
    /\ \A kind \in Kinds :
           IsList(kind) =>
               \A i \in 1..(Len(response.data) - 1) :
                   ~LexLess(attrs[kind][response.data[i]].name,
                            attrs[kind][response.data[i + 1]].name)

\* A tag / ingredient list returned two attributes with different names.
C8_Witness ==
    \E kind \in Kinds :
        /\ IsList(kind) /\ Len(response.data) = 2
        /\ attrs[kind][response.data[1]].name # attrs[kind][response.data[2]].name

\* The results the code can produce for the list request just answered.
Results ==
    IF req.view = "recipe"
    THEN RecipeViewSet_get_queryset(req.user, req.query_params)
    ELSE BaseRecipeAttrViewSet_get_queryset(req.view, req.user, req.query_params)

\* C9: a list query is deterministic: the stored collection, the query
\* parameters and the owner determine the entities returned and their order,
\* also when two attributes of the owner have the same name.
C9_Deterministic ==
    (req.action = "list" /\ response.status = HTTP_200_OK) =>
        \A rows \in Results : rows = response.data

\* C10: upload-image on a recipe that does not exist or belongs to another
\* owner yields NotFound; on a recipe of the requester it yields 200 with the
\* image saved when the payload validates and 400 when it does not.
C10_UploadImage ==
    (req.action = "upload_image") =>
        IF req.pk \notin DOMAIN recipes \/ recipes[req.pk].user # req.user
        THEN response.status = HTTP_404_NOT_FOUND
        ELSE IF is_valid(req.data)
        THEN /\ response.status = HTTP_200_OK
             /\ recipes[req.pk].image = req.data["image"]
        ELSE response.status = HTTP_400_BAD_REQUEST

====
